---- MODULE Spec2Model ----
(***************************************************************************)
(* Patent Copilot (src/patent_copilot.py): the search tool                 *)
(* PatentSearchTool.search_patents, the orchestrator                       *)
(* PatentAnalysisAgent.analyze_invention, the console reader               *)
(* get_user_input and the script main.                                     *)
(*                                                                         *)
(* Text is modelled as a sequence of one-character strings, so that        *)
(* formatting, joining, splitting and stripping are computed character by  *)
(* character.  A run of non-ASCII glyphs of the source (the emoji of the   *)
(* console messages) is the single element "<sym>".                        *)
(*                                                                         *)
(* Three specifications:                                                   *)
(*   Spec       one run of main, from the welcome banner to exit;          *)
(*   ToolSpec   search_patents called on arbitrary queries and backend     *)
(*              outcomes;                                                  *)
(*   AgentSpec  analyze_invention called repeatedly on one agent object.   *)
(* Exceptions are the ones `except Exception` can see; KeyboardInterrupt   *)
(* and SystemExit are outside the model.                                   *)
(***************************************************************************)
EXTENDS Integers, Sequences, FiniteSets, TLC

VARIABLES
    env,            \* os.environ after load_dotenv: the two credentials
    pc,             \* position of main
    out,            \* what print has written, one element per print call
    agent,          \* the PatentAnalysisAgent object (None before it is built)
    initStarted,    \* PatentAnalysisAgent() has been called
    lines,          \* get_user_input: local list `lines` of the current frame
    empty_lines,    \* get_user_input: local counter `empty_lines`
    consumed,       \* every line input() has returned so far in this run
    roundStart,     \* number of lines consumed before the current frame began
    prompts,        \* number of times get_user_input was entered
    description,    \* main: invention_description (None until returned)
    engineInput,    \* the "input" last handed to agent_executor.invoke
    engine,         \* what the engine did in the last analyze_invention call
    result,         \* outcome of the last analyze_invention call
    analyses,       \* number of analyze_invention calls
    network,        \* number of outbound calls (model calls and searches)
    query,          \* search_patents: argument of the last call
    backend,        \* search_patents: what client.search did in the last call
    returned        \* search_patents: outcome of the last call

vars == << env, pc, out, agent, initStarted, lines, empty_lines, consumed,
           roundStart, prompts, description, engineInput, engine, result,
           analyses, network, query, backend, returned >>

mainVars == << env, pc, out, initStarted >>
inputVars == << lines, empty_lines, consumed, roundStart, prompts, description >>
agentVars == << agent, engineInput, engine, result, analyses, network >>
toolVars == << query, backend, returned >>

-----------------------------------------------------------------------------
(* Bounds *)

\* result lists up to this length range over every combination of records
MaxVaried == 2
\* longest organic_results list the backend hands back
MaxResults == 11
\* number of lines stdin delivers before end of file
MaxInput == 6
\* number of analyze_invention calls on one agent object in AgentSpec
MaxCalls == 2

-----------------------------------------------------------------------------
(* Python values *)

None == << >>
Some(v) == << v >>

Digits == << "0", "1", "2", "3", "4", "5", "6", "7", "8", "9" >>

\* str(i) / f"{i}" for a non-negative int
RECURSIVE IntToStr(_)
IntToStr(n) ==
    IF n < 10 THEN << Digits[n + 1] >>
    ELSE IntToStr(n \div 10) \o << Digits[(n % 10) + 1] >>

\* c * n
Rep(c, n) == [i \in 1..n |-> c]

\* sep.join(items)
RECURSIVE Join(_, _)
Join(items, sep) ==
    IF items = << >> THEN << >>
    ELSE IF Len(items) = 1 THEN items[1]
    ELSE LET m == Len(items) \div 2
         IN  Join(SubSeq(items, 1, m), sep) \o sep
                 \o Join(SubSeq(items, m + 1, Len(items)), sep)

NL == << "\n" >>

\* the characters str.strip() removes
Whitespace == { " ", "\t", "\n", "\r", "\f" }

\* s.strip()
Strip(s) ==
    LET keep == { i \in 1..Len(s) : s[i] \notin Whitespace }
    IN  IF keep = {} THEN << >>
        ELSE LET a == CHOOSE i \in keep : \A j \in keep : i <= j
                 b == CHOOSE i \in keep : \A j \in keep : j <= i
             IN  SubSeq(s, a, b)

\* PatentSearchTool.search_patents, line 49
ErrSearchPrefix ==
    << "E", "r", "r", "o", "r", " ", "i", "n", " ", "p", "a", "t", "e", "n", "t", " ",
       "s", "e", "a", "r", "c", "h", ":", " " >>

\* PatentSearchTool.search_patents, line 54
NoPatentsPrefix ==
    << "N", "o", " ", "p", "a", "t", "e", "n", "t", "s", " ", "f", "o", "u", "n", "d",
       " ", "f", "o", "r", " ", "q", "u", "e", "r", "y", ":", " ", "'" >>

\* PatentSearchTool.search_patents, line 57
HeaderPrefix ==
    << "P", "a", "t", "e", "n", "t", " ", "S", "e", "a", "r", "c", "h", " ", "R", "e",
       "s", "u", "l", "t", "s", " ", "f", "o", "r", ":", " ", "'" >>

\* PatentSearchTool.search_patents, line 57
Quote ==
    << "'" >>

\* PatentSearchTool.search_patents, line 61
DefaultTitle ==
    << "N", "o", " ", "t", "i", "t", "l", "e", " ", "a", "v", "a", "i", "l", "a", "b",
       "l", "e" >>

\* PatentSearchTool.search_patents, line 62
DefaultSnippet ==
    << "N", "o", " ", "d", "e", "s", "c", "r", "i", "p", "t", "i", "o", "n", " ", "a",
       "v", "a", "i", "l", "a", "b", "l", "e" >>

\* PatentSearchTool.search_patents, line 63
DefaultPatentId ==
    << "N", "o", " ", "p", "a", "t", "e", "n", "t", " ", "I", "D" >>

\* PatentSearchTool.search_patents, line 64
DefaultInventor ==
    << "U", "n", "k", "n", "o", "w", "n", " ", "i", "n", "v", "e", "n", "t", "o", "r" >>

\* PatentSearchTool.search_patents, line 65
DefaultAssignee ==
    << "U", "n", "k", "n", "o", "w", "n", " ", "a", "s", "s", "i", "g", "n", "e", "e" >>

\* PatentSearchTool.search_patents, line 66
DefaultDate ==
    << "U", "n", "k", "n", "o", "w", "n", " ", "d", "a", "t", "e" >>

\* PatentSearchTool.search_patents, line 68
EntryDot ==
    << ".", " " >>

\* PatentSearchTool.search_patents, line 69
LblPatentId ==
    << " ", " ", " ", "P", "a", "t", "e", "n", "t", " ", "I", "D", ":", " " >>

\* PatentSearchTool.search_patents, line 70
LblInventor ==
    << " ", " ", " ", "I", "n", "v", "e", "n", "t", "o", "r", ":", " " >>

\* PatentSearchTool.search_patents, line 71
LblAssignee ==
    << " ", " ", " ", "A", "s", "s", "i", "g", "n", "e", "e", ":", " " >>

\* PatentSearchTool.search_patents, line 72
LblDate ==
    << " ", " ", " ", "P", "u", "b", "l", "i", "c", "a", "t", "i", "o", "n", " ", "D",
       "a", "t", "e", ":", " " >>

\* PatentSearchTool.search_patents, line 73
LblDescription ==
    << " ", " ", " ", "D", "e", "s", "c", "r", "i", "p", "t", "i", "o", "n", ":", " " >>

\* PatentSearchTool.search_patents, line 79
ErrExcPrefix ==
    << "E", "r", "r", "o", "r", " ", "o", "c", "c", "u", "r", "r", "e", "d", " ", "d",
       "u", "r", "i", "n", "g", " ", "p", "a", "t", "e", "n", "t", " ", "s", "e", "a",
       "r", "c", "h", ":", " " >>

\* PatentAnalysisAgent.analyze_invention, lines 162-164
TemplateHead ==
    << "P", "l", "e", "a", "s", "e", " ", "a", "n", "a", "l", "y", "z", "e", " ", "t",
       "h", "i", "s", " ", "i", "n", "v", "e", "n", "t", "i", "o", "n", " ", "a", "n",
       "d", " ", "s", "e", "a", "r", "c", "h", " ", "f", "o", "r", " ", "s", "i", "m",
       "i", "l", "a", "r", " ", "p", "a", "t", "e", "n", "t", "s", ":", "\n", "\n", "I",
       "n", "v", "e", "n", "t", "i", "o", "n", " ", "D", "e", "s", "c", "r", "i", "p",
       "t", "i", "o", "n", ":", " " >>

\* PatentAnalysisAgent.analyze_invention, lines 164-170
TemplateTail ==
    << "\n", "\n", "P", "l", "e", "a", "s", "e", " ", "f", "o", "l", "l", "o", "w", " ",
       "t", "h", "e", "s", "e", " ", "s", "t", "e", "p", "s", ":", "\n", "1", ".", " ",
       "E", "x", "t", "r", "a", "c", "t", " ", "k", "e", "y", " ", "t", "e", "c", "h",
       "n", "i", "c", "a", "l", " ", "c", "o", "n", "c", "e", "p", "t", "s", " ", "a",
       "n", "d", " ", "k", "e", "y", "w", "o", "r", "d", "s", "\n", "2", ".", " ", "G",
       "e", "n", "e", "r", "a", "t", "e", " ", "a", "n", "d", " ", "e", "x", "e", "c",
       "u", "t", "e", " ", "2", "-", "3", " ", "d", "i", "f", "f", "e", "r", "e", "n",
       "t", " ", "s", "e", "a", "r", "c", "h", " ", "s", "t", "r", "a", "t", "e", "g",
       "i", "e", "s", "\n", "3", ".", " ", "A", "n", "a", "l", "y", "z", "e", " ", "t",
       "h", "e", " ", "r", "e", "s", "u", "l", "t", "s", " ", "a", "n", "d", " ", "p",
       "r", "o", "v", "i", "d", "e", " ", "a", " ", "c", "o", "m", "p", "r", "e", "h",
       "e", "n", "s", "i", "v", "e", " ", "s", "u", "m", "m", "a", "r", "y", "\n", "4",
       ".", " ", "P", "r", "o", "v", "i", "d", "e", " ", "r", "e", "c", "o", "m", "m",
       "e", "n", "d", "a", "t", "i", "o", "n", "s", " ", "f", "o", "r", " ", "p", "a",
       "t", "e", "n", "t", " ", "s", "t", "r", "a", "t", "e", "g", "y" >>

\* PatentAnalysisAgent.analyze_invention, line 176
ErrAnalysisPrefix ==
    << "E", "r", "r", "o", "r", " ", "d", "u", "r", "i", "n", "g", " ", "p", "a", "t",
       "e", "n", "t", " ", "a", "n", "a", "l", "y", "s", "i", "s", ":", " " >>

\* PatentAnalysisAgent.__init__, line 88
ErrGeminiCtor ==
    << "G", "E", "M", "I", "N", "I", "_", "A", "P", "I", "_", "K", "E", "Y", " ", "n",
       "o", "t", " ", "f", "o", "u", "n", "d", " ", "i", "n", " ", "e", "n", "v", "i",
       "r", "o", "n", "m", "e", "n", "t", " ", "v", "a", "r", "i", "a", "b", "l", "e",
       "s" >>

\* PatentSearchTool.__init__, line 26
ErrSerpCtor ==
    << "S", "E", "R", "P", "A", "P", "I", "_", "A", "P", "I", "_", "K", "E", "Y", " ",
       "n", "o", "t", " ", "f", "o", "u", "n", "d", " ", "i", "n", " ", "e", "n", "v",
       "i", "r", "o", "n", "m", "e", "n", "t", " ", "v", "a", "r", "i", "a", "b", "l",
       "e", "s" >>

\* print_welcome, line 181
WelcomeTitle ==
    << " ", " ", " ", " ", "<sym>", " ", "P", "A", "T", "E", "N", "T", " ", "C", "O", "P",
       "I", "L", "O", "T", " ", "-", " ", "P", "a", "t", "e", "n", "t", " ", "S", "e",
       "a", "r", "c", "h", " ", "A", "g", "e", "n", "t", " ", "<sym>" >>

\* print_welcome, line 183
WelcomeIntro ==
    << "\n", "W", "e", "l", "c", "o", "m", "e", "!", " ", "I", "'", "l", "l", " ", "h",
       "e", "l", "p", " ", "y", "o", "u", " ", "s", "e", "a", "r", "c", "h", " ", "f",
       "o", "r", " ", "p", "a", "t", "e", "n", "t", "s", " ", "s", "i", "m", "i", "l",
       "a", "r", " ", "t", "o", " ", "y", "o", "u", "r", " ", "i", "n", "v", "e", "n",
       "t", "i", "o", "n", "." >>

\* print_welcome, line 184
WelcomeHowTo ==
    << "\n", "H", "o", "w", " ", "t", "o", " ", "u", "s", "e", ":" >>

\* print_welcome, line 185
WelcomeTip1 ==
    << "<sym>", " ", "D", "e", "s", "c", "r", "i", "b", "e", " ", "y", "o", "u", "r", " ",
       "i", "n", "v", "e", "n", "t", "i", "o", "n", " ", "i", "n", " ", "d", "e", "t",
       "a", "i", "l" >>

\* print_welcome, line 186
WelcomeTip2 ==
    << "<sym>", " ", "I", "n", "c", "l", "u", "d", "e", " ", "k", "e", "y", " ", "t", "e",
       "c", "h", "n", "i", "c", "a", "l", " ", "f", "e", "a", "t", "u", "r", "e", "s",
       " ", "a", "n", "d", " ", "f", "u", "n", "c", "t", "i", "o", "n", "a", "l", "i",
       "t", "y" >>

\* print_welcome, line 187
WelcomeTip3 ==
    << "<sym>", " ", "B", "e", " ", "s", "p", "e", "c", "i", "f", "i", "c", " ", "a", "b",
       "o", "u", "t", " ", "w", "h", "a", "t", " ", "m", "a", "k", "e", "s", " ", "i",
       "t", " ", "u", "n", "i", "q", "u", "e" >>

\* print_welcome, line 188
WelcomeExample1 ==
    << "\n", "E", "x", "a", "m", "p", "l", "e", ":", " ", "'", "A", " ", "s", "m", "a",
       "r", "t", " ", "w", "a", "t", "e", "r", " ", "b", "o", "t", "t", "l", "e", " ",
       "t", "h", "a", "t", " ", "t", "r", "a", "c", "k", "s", " ", "h", "y", "d", "r",
       "a", "t", "i", "o", "n", " ", "l", "e", "v", "e", "l", "s" >>

\* print_welcome, line 189
WelcomeExample2 ==
    << "u", "s", "i", "n", "g", " ", "s", "e", "n", "s", "o", "r", "s", " ", "a", "n",
       "d", " ", "s", "e", "n", "d", "s", " ", "r", "e", "m", "i", "n", "d", "e", "r",
       "s", " ", "t", "o", " ", "a", " ", "m", "o", "b", "i", "l", "e", " ", "a", "p",
       "p", "'" >>

\* get_user_input, line 194
MsgDescribe ==
    << "\n", "<sym>", " ", "P", "l", "e", "a", "s", "e", " ", "d", "e", "s", "c", "r", "i",
       "b", "e", " ", "y", "o", "u", "r", " ", "i", "n", "v", "e", "n", "t", "i", "o",
       "n", ":" >>

\* get_user_input, line 195
MsgEnterTwice ==
    << "(", "P", "r", "e", "s", "s", " ", "E", "n", "t", "e", "r", " ", "t", "w", "i",
       "c", "e", " ", "w", "h", "e", "n", " ", "f", "i", "n", "i", "s", "h", "e", "d",
       ")" >>

\* get_user_input, line 215
MsgPleaseProvide ==
    << "<sym>", " ", "P", "l", "e", "a", "s", "e", " ", "p", "r", "o", "v", "i", "d", "e",
       " ", "a", " ", "d", "e", "s", "c", "r", "i", "p", "t", "i", "o", "n", " ", "o",
       "f", " ", "y", "o", "u", "r", " ", "i", "n", "v", "e", "n", "t", "i", "o", "n",
       "." >>

\* main, line 228
MsgGeminiMissing ==
    << "<sym>", " ", "E", "r", "r", "o", "r", ":", " ", "G", "E", "M", "I", "N", "I", "_",
       "A", "P", "I", "_", "K", "E", "Y", " ", "n", "o", "t", " ", "f", "o", "u", "n",
       "d", " ", "i", "n", " ", "e", "n", "v", "i", "r", "o", "n", "m", "e", "n", "t",
       " ", "v", "a", "r", "i", "a", "b", "l", "e", "s" >>

\* main, line 235
MsgSerpMissing ==
    << "<sym>", " ", "E", "r", "r", "o", "r", ":", " ", "S", "E", "R", "P", "A", "P", "I",
       "_", "A", "P", "I", "_", "K", "E", "Y", " ", "n", "o", "t", " ", "f", "o", "u",
       "n", "d", " ", "i", "n", " ", "e", "n", "v", "i", "r", "o", "n", "m", "e", "n",
       "t", " ", "v", "a", "r", "i", "a", "b", "l", "e", "s" >>

\* main, line 229
MsgCreateEnv ==
    << "P", "l", "e", "a", "s", "e", " ", "c", "r", "e", "a", "t", "e", " ", "a", " ",
       ".", "e", "n", "v", " ", "f", "i", "l", "e", " ", "w", "i", "t", "h", " ", "y",
       "o", "u", "r", " ", "A", "P", "I", " ", "k", "e", "y", "s", ":" >>

\* main, line 230
MsgEnvGemini ==
    << "G", "E", "M", "I", "N", "I", "_", "A", "P", "I", "_", "K", "E", "Y", "=", "y",
       "o", "u", "r", "_", "g", "e", "m", "i", "n", "i", "_", "a", "p", "i", "_", "k",
       "e", "y" >>

\* main, line 231
MsgEnvSerp ==
    << "S", "E", "R", "P", "A", "P", "I", "_", "A", "P", "I", "_", "K", "E", "Y", "=",
       "y", "o", "u", "r", "_", "s", "e", "r", "p", "a", "p", "i", "_", "k", "e", "y" >>

\* main, line 242
MsgInitializing ==
    << "<sym>", " ", "I", "n", "i", "t", "i", "a", "l", "i", "z", "i", "n", "g", " ", "P",
       "a", "t", "e", "n", "t", " ", "A", "n", "a", "l", "y", "s", "i", "s", " ", "A",
       "g", "e", "n", "t", ".", ".", "." >>

\* main, line 244
MsgReady ==
    << "<sym>", " ", "A", "g", "e", "n", "t", " ", "r", "e", "a", "d", "y", "!" >>

\* main, line 249
MsgAnalyzing ==
    << "\n", "<sym>", " ", "A", "n", "a", "l", "y", "z", "i", "n", "g", " ", "i", "n", "v",
       "e", "n", "t", "i", "o", "n", " ", "a", "n", "d", " ", "s", "e", "a", "r", "c",
       "h", "i", "n", "g", " ", "f", "o", "r", " ", "s", "i", "m", "i", "l", "a", "r",
       " ", "p", "a", "t", "e", "n", "t", "s", ".", ".", "." >>

\* main, line 250
MsgMoment ==
    << "T", "h", "i", "s", " ", "m", "a", "y", " ", "t", "a", "k", "e", " ", "a", " ",
       "m", "o", "m", "e", "n", "t", ".", ".", ".", "\n" >>

\* main, line 255
MsgResultsHdr ==
    << "\n", "<sym>", " ", "A", "n", "a", "l", "y", "s", "i", "s", " ", "R", "e", "s", "u",
       "l", "t", "s", ":" >>

\* main, line 261
MsgErrOccurred ==
    << "\n", "<sym>", " ", "A", "n", " ", "e", "r", "r", "o", "r", " ", "o", "c", "c", "u",
       "r", "r", "e", "d", ":", " " >>

\* main, line 227
GEMINI_API_KEY ==
    << "G", "E", "M", "I", "N", "I", "_", "A", "P", "I", "_", "K", "E", "Y" >>

\* main, line 234
SERPAPI_API_KEY ==
    << "S", "E", "R", "P", "A", "P", "I", "_", "A", "P", "I", "_", "K", "E", "Y" >>

\* PatentSearchTool.search_patents, line 48: str(e) of the exception raised there
ErrNotIterable ==
    << "a", "r", "g", "u", "m", "e", "n", "t", " ", "o", "f", " ", "t", "y", "p", "e",
       " ", "'", "N", "o", "n", "e", "T", "y", "p", "e", "'", " ", "i", "s", " ", "n",
       "o", "t", " ", "i", "t", "e", "r", "a", "b", "l", "e" >>

\* PatentSearchTool.search_patents, line 61: str(e) of the exception raised there
ErrNoGet ==
    << "'", "s", "t", "r", "'", " ", "o", "b", "j", "e", "c", "t", " ", "h", "a", "s",
       " ", "n", "o", " ", "a", "t", "t", "r", "i", "b", "u", "t", "e", " ", "'", "g",
       "e", "t", "'" >>

\* PatentAnalysisAgent.analyze_invention, line 173: str(e) of the exception raised there
ErrNoOutput ==
    << "'", "o", "u", "t", "p", "u", "t", "'" >>

\* get_user_input, line 201: str(e) of the exception raised there
ErrEOF ==
    << "E", "O", "F", " ", "w", "h", "e", "n", " ", "r", "e", "a", "d", "i", "n", "g",
       " ", "a", " ", "l", "i", "n", "e" >>

-----------------------------------------------------------------------------
(* PatentSearchTool.search_patents *)

\* an exception object: its class and str(e)
Exc(type, msg) == [type |-> type, msg |-> msg]
NoExc == Exc("none", << >>)

\* how a call ends: by raising exc, or by returning value
Raise(e) == [raised |-> TRUE, exc |-> e, value |-> << >>]
Return(v) == [raised |-> FALSE, exc |-> NoExc, value |-> v]

\* one element of organic_results: a dict with any of the six keys, or a
\* value that is not a dict
Patent(t, s, p, i, a, d) ==
    [isdict |-> TRUE, title |-> t, snippet |-> s, patent_id |-> p,
     inventor |-> i, assignee |-> a, publication_date |-> d]
FullPatent ==
    Patent(Some(<< "L", "i", "d", "a", "r" >>), Some(<< "s", "c", "a", "n" >>),
           Some(<< "U", "S", "1" >>), Some(<< "A", "d", "a" >>),
           Some(<< "A", "c", "m", "e" >>), Some(<< "2", "0", "2", "0" >>))
PartialPatent ==
    Patent(Some(<< "7", " ", "m", "m" >>), None, Some(<< "E", "P", "2" >>),
           None, None, None)
BarePatent == Patent(None, None, None, None, None, None)
JunkRecord ==
    [isdict |-> FALSE, title |-> None, snippet |-> None, patent_id |-> None,
     inventor |-> None, assignee |-> None, publication_date |-> None]

DictRecords == << FullPatent, BarePatent, PartialPatent >>
Records == { FullPatent, BarePatent, PartialPatent, JunkRecord }

\* the organic_results lists the backend may hand back: every list of at
\* most MaxVaried records, and for each greater length up to MaxResults the
\* list that cycles through DictRecords
ResultLists ==
    UNION { [1..n -> Records] : n \in 0..MaxVaried }
    \cup { [i \in 1..n |-> DictRecords[(i % 3) + 1]] : n \in (MaxVaried + 1)..MaxResults }

BackendErrors == { << >>, << "q", "u", "o", "t", "a" >> }

\* what self.client.search(params) does: raises, returns something that is
\* not a dict, or returns a dict with optional "error" and "organic_results"
BackendOutcomes ==
    { [kind |-> "raise", exc |-> Exc("ConnectionError", m), error |-> None,
       organic_results |-> None] : m \in { << >>, << "d", "o", "w", "n" >> } }
    \cup { [kind |-> "nondict", exc |-> NoExc, error |-> None, organic_results |-> None] }
    \cup { [kind |-> "dict", exc |-> NoExc, error |-> e, organic_results |-> r] :
             e \in { None } \cup { Some(m) : m \in BackendErrors },
             r \in { None } \cup { Some(l) : l \in ResultLists } }
NoBackend == [kind |-> "none", exc |-> NoExc, error |-> None, organic_results |-> None]

Queries == { << "q" >>, << "l", "i", "d", "a", "r" >>, << "a", "'", "s", " ", "b" >> }

\* patent.get(key, default)
get(patent, key, default) ==
    IF patent[key] = None THEN default ELSE patent[key][1]

\* the for loop's pass without its closing rule
entry_without_rule(i, patent) ==
    << NL \o IntToStr(i) \o EntryDot \o get(patent, "title", DefaultTitle),
       LblPatentId \o get(patent, "patent_id", DefaultPatentId),
       LblInventor \o get(patent, "inventor", DefaultInventor),
       LblAssignee \o get(patent, "assignee", DefaultAssignee),
       LblDate \o get(patent, "publication_date", DefaultDate),
       LblDescription \o get(patent, "snippet", DefaultSnippet) >>

\* the seven strings one pass of the for loop appends
entry(i, patent) ==
    << NL \o IntToStr(i) \o EntryDot \o get(patent, "title", DefaultTitle),
       LblPatentId \o get(patent, "patent_id", DefaultPatentId),
       LblInventor \o get(patent, "inventor", DefaultInventor),
       LblAssignee \o get(patent, "assignee", DefaultAssignee),
       LblDate \o get(patent, "publication_date", DefaultDate),
       LblDescription \o get(patent, "snippet", DefaultSnippet),
       Rep("-", 40) >>

\* what the for loop over enumerate(patents, 1) appends for the first n patents
RECURSIVE entries(_, _)
entries(patents, n) ==
    IF n = 0 THEN << >>
    ELSE entries(patents, n - 1) \o entry(n, patents[n])

\* the list formatted_results when the loop has run to its end
formatted_results(q, patents) ==
    << HeaderPrefix \o q \o Quote, Rep("=", 50) >> \o entries(patents, Len(patents))

\* results.get("organic_results", [])
organic_results_of(b) ==
    IF b.organic_results = None THEN << >> ELSE b.organic_results[1]

\* the try block with the result list looked at before the error field
search_patents_try_results_first(q, b) ==
    IF b.kind = "raise" THEN Raise(b.exc)
    ELSE IF b.kind = "nondict" THEN Raise(Exc("TypeError", ErrNotIterable))
    ELSE LET patents == b.organic_results
         IN  IF patents # None /\ patents # Some(<< >>)
             THEN IF \E i \in 1..Len(patents[1]) : ~patents[1][i].isdict
                  THEN Raise(Exc("AttributeError", ErrNoGet))
                  ELSE Return(Join(<< HeaderPrefix \o q \o Quote, Rep("=", 50) >>, NL))
             ELSE IF b.error # None THEN Return(ErrSearchPrefix \o b.error[1])
             ELSE Return(NoPatentsPrefix \o q \o Quote)

\* the try block without the `if not patents` return
search_patents_try_no_empty_check(q, b) ==
    IF b.kind = "raise" THEN Raise(b.exc)
    ELSE IF b.kind = "nondict" THEN Raise(Exc("TypeError", ErrNotIterable))
    ELSE IF b.error # None THEN Return(ErrSearchPrefix \o b.error[1])
    ELSE IF \E i \in 1..Len(organic_results_of(b)) : ~organic_results_of(b)[i].isdict
    THEN Raise(Exc("AttributeError", ErrNoGet))
    ELSE Return(Join(<< HeaderPrefix \o q \o Quote, Rep("=", 50) >>, NL))

\* the body of the try block
search_patents_try(q, b) ==
    IF b.kind = "raise" THEN Raise(b.exc)
    ELSE IF b.kind = "nondict" THEN Raise(Exc("TypeError", ErrNotIterable))
    ELSE IF b.error # None THEN Return(ErrSearchPrefix \o b.error[1])
    ELSE LET patents == organic_results_of(b)
         IN  IF patents = << >> THEN Return(NoPatentsPrefix \o q \o Quote)
             ELSE IF \E i \in 1..Len(patents) : ~patents[i].isdict
                  THEN Raise(Exc("AttributeError", ErrNoGet))
             ELSE Return(Join(formatted_results(q, patents), NL))

\* an except clause that names the client's connection error only
search_catches_connection_only(e) == e.type = "ConnectionError"

\* the exception classes `except Exception` of search_patents catches
search_catches(e) == TRUE

\* search_patents(query): the try block under its except clause
search_patents(q, b) ==
    LET r == search_patents_try(q, b)
    IN  IF r.raised /\ search_catches(r.exc)
        THEN Return(ErrExcPrefix \o r.exc.msg)
        ELSE r

\* one call of search_patents
SearchPatents(q, b) ==
    /\ query' = q
    /\ backend' = b
    /\ returned' = Some(search_patents(q, b))
    /\ UNCHANGED << mainVars, inputVars, agentVars >>

-----------------------------------------------------------------------------
(* PatentAnalysisAgent *)

max_iterations == 10

\* os.getenv(name): None when unset, else the value (possibly "")
getenv(e, name) == e[name]

\* not value, for a str or None
falsy(v) == v = None \/ v[1] = << >>

EnvValues == { None, Some(<< >>), Some(<< "k", "1" >>) }
Environments == [{ GEMINI_API_KEY, SERPAPI_API_KEY } -> EnvValues]

\* PatentSearchTool.__init__
PatentSearchTool_init(e) ==
    IF falsy(getenv(e, SERPAPI_API_KEY))
    THEN Raise(Exc("ValueError", ErrSerpCtor))
    ELSE Return([api_key |-> getenv(e, SERPAPI_API_KEY)[1]])

\* PatentAnalysisAgent.__init__; ext is whether the framework's constructors
\* (the chat model, the agent, the executor) succeed
PatentAnalysisAgent_init(e, ext) ==
    IF falsy(getenv(e, GEMINI_API_KEY))
    THEN Raise(Exc("ValueError", ErrGeminiCtor))
    ELSE IF ext = "raise"
    THEN Raise(Exc("ImportError", << "l", "l", "m" >>))
    ELSE IF PatentSearchTool_init(e).raised
    THEN PatentSearchTool_init(e)
    ELSE Return([llm |-> [model |-> "gemini-1.5-flash",
                          google_api_key |-> getenv(e, GEMINI_API_KEY)[1],
                          temperature |-> "0.3"],
                 patent_tool |-> PatentSearchTool_init(e).value,
                 tools |-> << "patent_search" >>,
                 verbose |-> TRUE,
                 max_iterations |-> max_iterations])

EngineOutputs == { << >>, << "r", "e", "p", "o", "r", "t" >> }
ToolCallCounts == { 0, 1, max_iterations }

\* what self.agent_executor.invoke does: raises, returns a dict without
\* "output", or returns a dict with "output"; toolCalls is the number of
\* patent_search rounds it ran before that
EngineOutcomes ==
    { [kind |-> "output", exc |-> NoExc, output |-> o, toolCalls |-> k] :
        o \in EngineOutputs, k \in ToolCallCounts }
    \cup { [kind |-> "raise", exc |-> Exc("RuntimeError", m), output |-> << >>,
            toolCalls |-> k] :
             m \in { << >>, << "4", "2", "9" >> }, k \in ToolCallCounts }
    \cup { [kind |-> "nooutput", exc |-> NoExc, output |-> << >>, toolCalls |-> k] :
             k \in ToolCallCounts }
NoEngine == [kind |-> "none", exc |-> NoExc, output |-> << >>, toolCalls |-> 0]

\* the "input" of the dict passed to invoke
engine_input(d) == TemplateHead \o d \o TemplateTail

\* the body of the try block
analyze_invention_try(d, o) ==
    IF o.kind = "raise" THEN Raise(o.exc)
    ELSE IF o.kind = "nooutput" THEN Raise(Exc("KeyError", ErrNoOutput))
    ELSE Return(o.output)

\* an except clause that names ValueError only
analyze_catches_value_error_only(e) == e.type = "ValueError"

\* the exception classes `except Exception` of analyze_invention catches
analyze_catches(e) == TRUE

\* analyze_invention(invention_description): the try block under its except
analyze_invention(d, o) ==
    LET r == analyze_invention_try(d, o)
    IN  IF r.raised /\ analyze_catches(r.exc)
        THEN Return(ErrAnalysisPrefix \o r.exc.msg)
        ELSE r

\* the agent object after analyze_invention: the method assigns no attribute
agent_after_analyze(a, d, o) == a

\* one call of analyze_invention on the agent object
Analyze(d, o) ==
    /\ agent # None
    /\ engineInput' = Some(engine_input(d))
    /\ engine' = o
    /\ result' = Some(analyze_invention(d, o))
    /\ agent' = Some(agent_after_analyze(agent[1], d, o))
    /\ analyses' = analyses + 1
    /\ network' = network + 1 + o.toolCalls

-----------------------------------------------------------------------------
(* get_user_input *)

\* the lines input() may return
InputLines ==
    { << >>, << " " >>, << "h", "e", "l", "l", "o" >>, << " ", "a", " " >> }

\* line == "", without the strip
is_blank_empty_only(line) == line = << >>

\* line.strip() == ""
is_blank(line) == Strip(line) = << >>

\* while lines and lines[-1].strip() == "": lines.pop()
RECURSIVE pop_trailing(_)
pop_trailing(ls) ==
    IF ls # << >> /\ is_blank(ls[Len(ls)])
    THEN pop_trailing(SubSeq(ls, 1, Len(ls) - 1))
    ELSE ls

\* "\n".join(lines).strip() after the trailing empty lines were removed
describe(ls) == Strip(Join(pop_trailing(ls), NL))

\* the two prints at the top of get_user_input
PromptLines == << MsgDescribe, MsgEnterTwice >>

\* a retry that keeps the list of the frame before
lines_kept(ls) == ls

\* the frame a new call of get_user_input starts with
lines_at_entry(ls) == << >>

\* one pass of the while loop of get_user_input on the line input() returned
\* and, when the loop ends with it, the rest of the function: the description
\* is returned to main, or the function calls itself
ReadLine(line) ==
    /\ pc = "collect"
    /\ Len(consumed) < MaxInput
    /\ consumed' = Append(consumed, line)
    /\ LET el == IF is_blank(line) THEN empty_lines + 1 ELSE 0
           ls == Append(lines, line)
       IN  IF el < 2
           THEN /\ lines' = ls
                /\ empty_lines' = el
                /\ UNCHANGED << pc, out, roundStart, prompts, description >>
           ELSE IF describe(ls) = << >>
           THEN /\ out' = out \o << MsgPleaseProvide >> \o PromptLines
                /\ lines' = lines_at_entry(ls)
                /\ empty_lines' = 0
                /\ roundStart' = Len(consumed) + 1
                /\ prompts' = prompts + 1
                /\ UNCHANGED << pc, description >>
           ELSE /\ lines' = pop_trailing(ls)
                /\ empty_lines' = el
                /\ description' = Some(describe(ls))
                /\ pc' = "analyze"
                /\ UNCHANGED << out, roundStart, prompts >>
    /\ UNCHANGED << env, initStarted, agentVars, toolVars >>

-----------------------------------------------------------------------------
(* main *)

\* the exception classes `except Exception` of main catches
main_catches(e) == TRUE

\* the except block of main: the message and the traceback
Reported(e) == << MsgErrOccurred \o e.msg, << "<traceback>" >> >>

\* print_welcome
WelcomeLines ==
    << Rep("=", 60), WelcomeTitle, Rep("=", 60), WelcomeIntro, WelcomeHowTo,
       WelcomeTip1, WelcomeTip2, WelcomeTip3, WelcomeExample1, WelcomeExample2,
       NL \o Rep("-", 60) >>

\* the four prints of a failed credential check
Remediation(msg) == << msg, MsgCreateEnv, MsgEnvGemini, MsgEnvSerp >>

PrintWelcome ==
    /\ pc = "start"
    /\ out' = out \o WelcomeLines
    /\ pc' = "validate"
    /\ UNCHANGED << env, initStarted, inputVars, agentVars, toolVars >>

\* the credential checks without the one of the search key
ValidateCredentials_model_key_only ==
    /\ pc = "validate"
    /\ IF falsy(getenv(env, GEMINI_API_KEY))
       THEN out' = out \o Remediation(MsgGeminiMissing) /\ pc' = "exit"
       ELSE out' = out /\ pc' = "init"
    /\ UNCHANGED << env, initStarted, inputVars, agentVars, toolVars >>

\* the two credential checks
ValidateCredentials ==
    /\ pc = "validate"
    /\ IF falsy(getenv(env, GEMINI_API_KEY))
       THEN out' = out \o Remediation(MsgGeminiMissing) /\ pc' = "exit"
       ELSE IF falsy(getenv(env, SERPAPI_API_KEY))
       THEN out' = out \o Remediation(MsgSerpMissing) /\ pc' = "exit"
       ELSE out' = out /\ pc' = "init"
    /\ UNCHANGED << env, initStarted, inputVars, agentVars, toolVars >>

\* agent = PatentAnalysisAgent() and, when it is built, the entry of
\* get_user_input up to its first input()
InitAgent(ext) ==
    /\ pc = "init"
    /\ initStarted' = TRUE
    /\ LET r == PatentAnalysisAgent_init(env, ext)
       IN  IF r.raised
           THEN /\ main_catches(r.exc)
                /\ out' = out \o << MsgInitializing >> \o Reported(r.exc)
                /\ pc' = "exit"
                /\ UNCHANGED << agent, prompts >>
           ELSE /\ agent' = Some(r.value)
                /\ out' = out \o << MsgInitializing, MsgReady >> \o PromptLines
                /\ prompts' = prompts + 1
                /\ pc' = "collect"
    /\ UNCHANGED << env, lines, empty_lines, consumed, roundStart, description,
                    engineInput, engine, result, analyses, network, toolVars >>

\* input() raises EOFError: stdin has ended
ReadEOF ==
    /\ pc = "collect"
    /\ main_catches(Exc("EOFError", ErrEOF))
    /\ out' = out \o Reported(Exc("EOFError", ErrEOF))
    /\ pc' = "exit"
    /\ UNCHANGED << env, initStarted, inputVars, agentVars, toolVars >>

\* where main goes after result = agent.analyze_invention(...)
after_analysis(r) == IF r.raised THEN "exit" ELSE "print"

\* result = agent.analyze_invention(invention_description)
MainAnalyze(o) ==
    /\ pc = "analyze"
    /\ Analyze(description[1], o)
    /\ LET r == analyze_invention(description[1], o)
       IN  /\ pc' = after_analysis(r)
           /\ out' = out \o << MsgAnalyzing, MsgMoment >>
                        \o (IF r.raised THEN Reported(r.exc) ELSE << >>)
    /\ UNCHANGED << env, initStarted, inputVars, toolVars >>

\* a main that asks for another description after printing
after_print_again == "collect"

\* where main goes after the result was printed
after_print == "exit"

\* the four prints of the result
PrintResult ==
    /\ pc = "print"
    /\ out' = out \o << MsgResultsHdr, Rep("=", 60), result[1].value, NL \o Rep("=", 60) >>
    /\ pc' = after_print
    /\ UNCHANGED << env, initStarted, inputVars, agentVars, toolVars >>

-----------------------------------------------------------------------------
(* Specifications *)

Init ==
    /\ env \in Environments
    /\ pc = "start"
    /\ out = << >>
    /\ agent = None
    /\ initStarted = FALSE
    /\ lines = << >>
    /\ empty_lines = 0
    /\ consumed = << >>
    /\ roundStart = 0
    /\ prompts = 0
    /\ description = None
    /\ engineInput = None
    /\ engine = NoEngine
    /\ result = None
    /\ analyses = 0
    /\ network = 0
    /\ query = << >>
    /\ backend = NoBackend
    /\ returned = None

Next ==
    \/ PrintWelcome
    \/ ValidateCredentials
    \/ \E ext \in { "ok", "raise" } : InitAgent(ext)
    \/ \E line \in InputLines : ReadLine(line)
    \/ ReadEOF
    \/ \E o \in EngineOutcomes : MainAnalyze(o)
    \/ PrintResult

Spec == Init /\ [][Next]_vars

\* a search tool on its own, main not running
ToolInit ==
    /\ env = [v \in { GEMINI_API_KEY, SERPAPI_API_KEY } |-> Some(<< "k", "1" >>)]
    /\ pc = "off"
    /\ out = << >>
    /\ agent = None
    /\ initStarted = FALSE
    /\ lines = << >>
    /\ empty_lines = 0
    /\ consumed = << >>
    /\ roundStart = 0
    /\ prompts = 0
    /\ description = None
    /\ engineInput = None
    /\ engine = NoEngine
    /\ result = None
    /\ analyses = 0
    /\ network = 0
    /\ query = << >>
    /\ backend = NoBackend
    /\ returned = None

ToolNext == \E q \in Queries, b \in BackendOutcomes : SearchPatents(q, b)

ToolSpec == ToolInit /\ [][ToolNext]_vars

Descriptions == { << "h", "e", "l", "l", "o" >>, << "a", "\n", "b" >>, << "x" >> }

\* an agent object built with both credentials, main not running
AgentInit ==
    /\ env = [v \in { GEMINI_API_KEY, SERPAPI_API_KEY } |-> Some(<< "k", "1" >>)]
    /\ pc = "off"
    /\ out = << >>
    /\ agent = Some(PatentAnalysisAgent_init(env, "ok").value)
    /\ initStarted = TRUE
    /\ lines = << >>
    /\ empty_lines = 0
    /\ consumed = << >>
    /\ roundStart = 0
    /\ prompts = 0
    /\ description = None
    /\ engineInput = None
    /\ engine = NoEngine
    /\ result = None
    /\ analyses = 0
    /\ network = 0
    /\ query = << >>
    /\ backend = NoBackend
    /\ returned = None

AgentCall(d, o) ==
    /\ analyses < MaxCalls
    /\ Analyze(d, o)
    /\ UNCHANGED << mainVars, inputVars, toolVars >>

AgentNext == \E d \in Descriptions, o \in EngineOutcomes : AgentCall(d, o)

AgentSpec == AgentInit /\ [][AgentNext]_vars

-----------------------------------------------------------------------------
(* Reading text back: prefixes, lines, separator rules, numbered entries *)

SearchErrorText ==
    << "E", "r", "r", "o", "r", " ", "i", "n", " ", "p", "a", "t", "e", "n", "t", " ",
       "s", "e", "a", "r", "c", "h", ":" >>
AnalysisErrorText ==
    << "E", "r", "r", "o", "r", " ", "d", "u", "r", "i", "n", "g", " ", "p", "a", "t",
       "e", "n", "t", " ", "a", "n", "a", "l", "y", "s", "i", "s", ":" >>
NoPatentsText ==
    << "N", "o", " ", "p", "a", "t", "e", "n", "t", "s", " ", "f", "o", "u", "n", "d",
       " ", "f", "o", "r", " ", "q", "u", "e", "r", "y", ":", " ", "'" >>
HeaderText ==
    << "P", "a", "t", "e", "n", "t", " ", "S", "e", "a", "r", "c", "h", " ", "R", "e",
       "s", "u", "l", "t", "s", " ", "f", "o", "r", ":", " ", "'" >>
ErrorLabel ==
    << "E", "r", "r", "o", "r", ":", " " >>
Hello ==
    << "h", "e", "l", "l", "o" >>

StartsWith(s, p) == Len(s) >= Len(p) /\ SubSeq(s, 1, Len(p)) = p

Contains(s, p) ==
    \E i \in 1..(Len(s) - Len(p) + 1) : SubSeq(s, i, i + Len(p) - 1) = p

\* the positions at which the lines of s begin
LineStarts(s) == { 1 } \cup { i + 1 : i \in { j \in 1..Len(s) : s[j] = "\n" } }

\* the line of s that begins at position st
LineAt(s, st) ==
    IF \E j \in st..Len(s) : s[j] = "\n"
    THEN SubSeq(s, st, (CHOOSE j \in st..Len(s) :
                           s[j] = "\n" /\ \A k \in st..(j - 1) : s[k] # "\n") - 1)
    ELSE SubSeq(s, st, Len(s))

\* a separator rule: a line of 50 "=" or of 40 "-"
IsRule(l) ==
    \/ Len(l) = 50 /\ \A i \in 1..50 : l[i] = "="
    \/ Len(l) = 40 /\ \A i \in 1..40 : l[i] = "-"

IsDigit(c) == \E i \in 1..10 : Digits[i] = c

\* a numbered entry: a line that begins with a number, a dot and a blank
IsEntry(l) ==
    \E d \in 1..(Len(l) - 2) :
        /\ \A i \in 1..d : IsDigit(l[i])
        /\ l[d + 1] = "."
        /\ l[d + 2] = " "

RuleStarts(s) == { st \in LineStarts(s) : IsRule(LineAt(s, st)) }
EntryStarts(s) == { st \in LineStarts(s) : IsEntry(LineAt(s, st)) }

\* the title the k-th record is rendered with
ShownTitle(p) == IF p.title = None THEN DefaultTitle ELSE p.title[1]

\* the entries of s are numbered 1..Len(recs), in the order of recs
EntriesInOrder(s, recs) ==
    /\ Cardinality(EntryStarts(s)) = Len(recs)
    /\ \A st \in EntryStarts(s) :
          LET k == Cardinality({ e \in EntryStarts(s) : e <= st })
          IN  LineAt(s, st) = IntToStr(k) \o << ".", " " >> \o ShownTitle(recs[k])

\* the last search_patents call got a dict without "error" whose
\* organic_results is a list of dicts
WellFormed ==
    /\ returned # None
    /\ backend.kind = "dict"
    /\ backend.error = None
    /\ backend.organic_results # None
    /\ \A i \in 1..Len(backend.organic_results[1]) : backend.organic_results[1][i].isdict

Received == backend.organic_results[1]
Text == returned[1].value

Min(a, b) == IF a <= b THEN a ELSE b

-----------------------------------------------------------------------------
(* Claims about search_patents, checked under ToolSpec *)

\* C1: search_patents never raises and always returns a non-empty string,
\* whatever the backend did: raised, answered with an error field, with no
\* results, with results, or with something that cannot be read.
C1_NeverRaisesNeverEmpty ==
    returned # None => ~returned[1].raised /\ Len(returned[1].value) > 0

\* a call whose response held a record that is not a dict (an exception
\* while reading the response) has returned
C1_Witness ==
    /\ returned # None
    /\ backend.kind = "dict"
    /\ backend.error = None
    /\ backend.organic_results # None
    /\ \E i \in 1..Len(backend.organic_results[1]) : ~backend.organic_results[1][i].isdict

\* C4 as stated: for a well-formed response with N records, 1 <= N <= 10,
\* the text starts with the header echoing the query, has the entries 1..N in
\* the order received, and has exactly 2*N separator rules.
C4_TwoRulesPerEntry ==
    (WellFormed /\ Len(Received) \in 1..10) =>
        /\ StartsWith(Text, HeaderText \o query \o << "'", "\n" >>)
        /\ EntriesInOrder(Text, Received)
        /\ Cardinality(RuleStarts(Text)) = 2 * Len(Received)

\* C4 amended: for a well-formed response with N records, 1 <= N <= 10,
\* whose query and field values are single-line text, the text starts with
\* the header echoing the query, has the entries 1..N in the order received,
\* and has exactly N + 1 separator rules: one rule of 50 "=" right after the
\* header and one rule of 40 "-" closing each entry.
C4_HeaderEntriesRules ==
    (WellFormed /\ Len(Received) \in 1..10) =>
        /\ StartsWith(Text, HeaderText \o query \o << "'", "\n" >>)
        /\ EntriesInOrder(Text, Received)
        /\ Cardinality(RuleStarts(Text)) = Len(Received) + 1
        /\ LineAt(Text, Len(HeaderText) + Len(query) + 3) = Rep("=", 50)
        /\ Cardinality({ st \in RuleStarts(Text) : LineAt(Text, st)[1] = "-" })
              = Len(Received)

\* a well-formed response with three records has been formatted
C4_Witness == WellFormed /\ Len(Received) = 3 /\ ~returned[1].raised

\* C5: the text never holds more than 10 entries: for a response with a list
\* of dict records of any length, the number of numbered entries is
\* min(length, 10).
C5_AtMostTenEntries ==
    WellFormed => Cardinality(EntryStarts(Text)) = Min(Len(Received), 10)

\* C6: a response with an error field yields "Error in patent search:"
\* followed by the error text, whether or not it also carries results.
C6_ErrorFieldFirst ==
    (returned # None /\ backend.kind = "dict" /\ backend.error # None) =>
        /\ ~returned[1].raised
        /\ StartsWith(Text, SearchErrorText)
        /\ Contains(Text, backend.error[1])
        /\ Text = SearchErrorText \o << " " >> \o backend.error[1]
        /\ EntryStarts(Text) = {}
        /\ ~StartsWith(Text, NoPatentsText)

\* a response with both an error text and result records has been answered
C6_Witness ==
    /\ returned # None
    /\ backend.kind = "dict"
    /\ backend.error # None
    /\ backend.error[1] # << >>
    /\ backend.organic_results # None
    /\ Len(backend.organic_results[1]) > 0

\* C7: a response without error field whose result list is empty or absent
\* yields exactly "No patents found for query: '<query>'", with no header,
\* entry or separator rule.
C7_NoPatentsMessage ==
    (/\ returned # None
     /\ backend.kind = "dict"
     /\ backend.error = None
     /\ (backend.organic_results = None \/ backend.organic_results = Some(<< >>))) =>
        /\ ~returned[1].raised
        /\ Text = NoPatentsText \o query \o << "'" >>
        /\ ~StartsWith(Text, HeaderText)
        /\ EntryStarts(Text) = {}
        /\ RuleStarts(Text) = {}

\* a response with no organic_results key at all has been answered
C7_Witness ==
    /\ returned # None
    /\ backend.kind = "dict"
    /\ backend.error = None
    /\ backend.organic_results = None

-----------------------------------------------------------------------------
(* Claims about analyze_invention, checked under AgentSpec *)

\* C3: analyze_invention never propagates an exception: when the engine
\* raises the call returns a string starting with "Error during patent
\* analysis:", otherwise it returns the engine's final output; and the call
\* leaves the agent object as it was, so that every call is answered from its
\* own episode alone.
C3_AnalysisNeverRaises ==
    /\ [](result # None =>
            /\ ~result[1].raised
            /\ engine.kind = "raise" =>
                  /\ StartsWith(result[1].value, AnalysisErrorText)
                  /\ result[1].value = AnalysisErrorText \o << " " >> \o engine.exc.msg
            /\ engine.kind = "output" => result[1].value = engine.output)
    /\ [][agent' = agent]_vars

\* a second call on the same agent object in which the engine raised
C3_Witness == analyses = 2 /\ engine.kind = "raise" /\ result # None

-----------------------------------------------------------------------------
(* Claims about get_user_input and main, checked under Spec *)

\* a credential main finds missing: unset, or set to the empty string
Missing(name) == env[name] = None \/ env[name] = Some(<< >>)

Credentials == { GEMINI_API_KEY, SERPAPI_API_KEY }

\* the printed lines that report an error
ErrorLines == { i \in 1..Len(out) : Contains(out[i], ErrorLabel) }

\* C2: when a credential is missing, the run never initialises the agent,
\* never collects input, never analyses and never goes to the network, and
\* what it prints on the way out names the missing variable: one error line,
\* naming a variable that is missing (the model key when both are), and
\* every missing variable is named in the lines printed with it.
C2_MissingCredentialStopsRun ==
    (\E v \in Credentials : Missing(v)) =>
        /\ ~initStarted
        /\ agent = None
        /\ prompts = 0
        /\ consumed = << >>
        /\ description = None
        /\ analyses = 0
        /\ network = 0
        /\ pc \in { "start", "validate", "exit" }
        /\ pc = "exit" =>
              /\ Cardinality(ErrorLines) = 1
              /\ \A i \in ErrorLines :
                    /\ \E v \in Credentials : Missing(v) /\ Contains(out[i], v)
                    /\ \A v \in Credentials : Contains(out[i], v) => Missing(v)
                    /\ Missing(GEMINI_API_KEY) => Contains(out[i], GEMINI_API_KEY)
                    /\ \A v \in Credentials :
                          Missing(v) => \E j \in i..Len(out) : Contains(out[j], v)

\* a run in which only the search key was missing has ended
C2_Witness ==
    /\ ~Missing(GEMINI_API_KEY)
    /\ Missing(SERPAPI_API_KEY)
    /\ pc = "exit"

\* the lines read since get_user_input was last entered
RoundLines == SubSeq(consumed, roundStart + 1, Len(consumed))

\* a line that is empty or holds only whitespace
Blank(l) == \A i \in 1..Len(l) : l[i] \in Whitespace

\* ls without the blank lines at its end
WithoutTrailingBlanks(ls) ==
    LET nb == { i \in 1..Len(ls) : ~Blank(ls[i]) }
    IN  IF nb = {} THEN << >>
        ELSE SubSeq(ls, 1, CHOOSE i \in nb : \A j \in nb : j <= i)

NoDoubleBlank(ls) == \A i \in 1..(Len(ls) - 1) : ~(Blank(ls[i]) /\ Blank(ls[i + 1]))

\* ls ends with the first two consecutive blank lines it holds
EndsAtFirstDoubleBlank(ls) ==
    /\ Len(ls) >= 2
    /\ Blank(ls[Len(ls)])
    /\ Blank(ls[Len(ls) - 1])
    /\ NoDoubleBlank(SubSeq(ls, 1, Len(ls) - 1))

\* t is s without the whitespace at its two ends
IsTrimOf(t, s) ==
    \E a \in 1..Len(s), b \in 1..Len(s) :
        /\ a <= b
        /\ t = SubSeq(s, a, b)
        /\ s[a] \notin Whitespace
        /\ s[b] \notin Whitespace
        /\ \A i \in (1..(a - 1)) \cup ((b + 1)..Len(s)) : s[i] \in Whitespace

\* C8 as stated: reading stops at the first two consecutive blank lines, and
\* the description returned equals the lines read, without the trailing blank
\* lines, joined with newlines, the lines' own text kept as read.
C8_JoinedAsRead ==
    /\ pc = "collect" => NoDoubleBlank(RoundLines)
    /\ description # None =>
          /\ EndsAtFirstDoubleBlank(RoundLines)
          /\ description[1] = Join(WithoutTrailingBlanks(RoundLines), NL)

\* C8 amended: reading stops at the first two consecutive blank lines, and
\* the description returned equals the lines read, without the trailing blank
\* lines, joined with newlines and then stripped of the whitespace at its two
\* ends (leading blank lines, the first line's leading and the last line's
\* trailing whitespace go; everything between is kept as read); the lines
\* "hello", "", "" give "hello".
C8_JoinedThenStripped ==
    /\ pc = "collect" => NoDoubleBlank(RoundLines)
    /\ description # None =>
          /\ EndsAtFirstDoubleBlank(RoundLines)
          /\ IsTrimOf(description[1], Join(WithoutTrailingBlanks(RoundLines), NL))
          /\ RoundLines = << Hello, << >>, << >> >> => description[1] = Hello

\* a description was returned whose first line read was blank, so that the
\* final strip removed something
C8_Witness ==
    /\ description # None
    /\ Len(RoundLines) >= 4
    /\ Blank(RoundLines[1])
    /\ description[1] # Join(WithoutTrailingBlanks(RoundLines), NL)

\* C9: get_user_input never returns an empty description: a round that ends
\* with nothing but blank lines prints the prompt again and starts a fresh
\* round with the lines read so far discarded, and the value returned is
\* non-empty and made of the lines of the last round only.
C9_NeverEmptyRePrompts ==
    /\ [](description # None =>
            /\ description[1] # << >>
            /\ lines = WithoutTrailingBlanks(RoundLines)
            /\ IsTrimOf(description[1], Join(WithoutTrailingBlanks(RoundLines), NL)))
    /\ [](prompts = Cardinality({ i \in 1..Len(out) : out[i] = MsgDescribe }))
    /\ [][(/\ pc = "collect"
           /\ consumed' # consumed
           /\ LET read == SubSeq(consumed', roundStart + 1, Len(consumed'))
              IN  EndsAtFirstDoubleBlank(read) /\ WithoutTrailingBlanks(read) = << >>)
          => /\ pc' = "collect"
             /\ description' = None
             /\ prompts' = prompts + 1
             /\ out' = out \o << MsgPleaseProvide, MsgDescribe, MsgEnterTwice >>
             /\ lines' = << >>
             /\ empty_lines' = 0
             /\ roundStart' = Len(consumed')]_vars

\* a description was returned by the second call of get_user_input or a
\* later one
C9_Witness == description # None /\ prompts >= 2 /\ roundStart >= 2

Rank(p) ==
    CASE p = "start" -> 0
      [] p = "validate" -> 1
      [] p = "init" -> 2
      [] p = "collect" -> 3
      [] p = "analyze" -> 4
      [] p = "print" -> 5
      [] p = "exit" -> 6

ResultPrinted == \E i \in 1..Len(out) : out[i] = MsgResultsHdr

\* C10: a run of main goes start, validate credentials, collect input, run
\* the analysis, print, exit and never back: analyze_invention is called at
\* most once, only with both credentials present and a non-empty description
\* collected, and the result is printed only after the analysis returned.
C10_LinearFlow ==
    /\ [](/\ analyses <= 1
          /\ Rank(pc) <= 3 => analyses = 0
          /\ analyses = 1 =>
                /\ \A v \in Credentials : ~Missing(v)
                /\ agent # None
                /\ description # None
                /\ description[1] # << >>
          /\ (pc = "print" \/ ResultPrinted) =>
                analyses = 1 /\ result # None /\ ~result[1].raised
          /\ ResultPrinted => pc = "exit")
    /\ [][Rank(pc') >= Rank(pc) /\ (analyses' # analyses => pc = "analyze")]_vars

\* a run that analysed a description and printed the result has ended
C10_Witness == pc = "exit" /\ ResultPrinted /\ analyses = 1

====
